---- MODULE Spec2Model ----
(***************************************************************************)
(* Model of the synthetic ADS-B generator: motion_patterns.py (the four    *)
(* motion patterns) and server.py (Aircraft, AircraftManager, the radar    *)
(* configuration table and the request handlers).                          *)
(*                                                                         *)
(* Floating point values are modelled in fixed point:                      *)
(*   latitude / longitude   1e-7 degree                                    *)
(*   angles in degrees      1e-3 degree (millidegree)                      *)
(*   angles in radians      1e-8 radian (1 millidegree = 1745 units)       *)
(*   speed in knots         1e-2 knot                                      *)
(*   speed in m/s           1e-3 m/s                                       *)
(*   sine / cosine          1e-3                                           *)
(*   time                   1 second                                       *)
(* None is the empty sequence and a present optional value is <<v>>.       *)
(*                                                                         *)
(* Two variables hold state of the interpreter the program reads without   *)
(* naming it: random_state is the sequence of draws the random module has  *)
(* delivered to _initialize_aircraft (what its seed determines), and       *)
(* hash_secret is the key the process hashes strings with, set when the    *)
(* process starts.                                                         *)
(***************************************************************************)
EXTENDS Integers, Sequences, FiniteSets, TLC

VARIABLES now, pattern, result, env, radar_configs, aircraft_list, pc, reply,
          random_state, hash_secret

vars == <<now, pattern, result, env, radar_configs, aircraft_list, pc, reply, random_state, hash_secret>>

None == <<>>
Some(v) == <<v>>

\* The keys a process may hash strings with (PYTHONHASHSEED is not set, so
\* the interpreter draws one at its start).
HashSecrets == {0, 7}

(***************************************************************************)
(* Bounds of the model.                                                    *)
(***************************************************************************)
MaxProfileLen == 3
MaxElapsed == 21
MaxBefore == 2
MaxNormal == 2
MaxAnomalous == 2
MaxAhead == 3
MaxClock == 7
MaxLater == 2
MaxTracked == 1

(***************************************************************************)
(* Arithmetic of the math module, in fixed point.                          *)
(***************************************************************************)
Abs(x) == IF x < 0 THEN -x ELSE x

\* math.radians: millidegrees to 1e-8 rad (pi/180 = 0.01745...).
Radians(deg) == deg * 1745

\* math.degrees: 1e-8 rad to millidegrees.
Degrees(rad) == rad \div 1745

\* math.sin of an angle in 1e-8 rad, in 1/1000 (Bhaskara's rational
\* approximation on whole degrees).
Sin(rad) ==
  LET x == (Degrees(rad) \div 1000) % 360
      h(y) == (4000 * y * (180 - y)) \div (40500 - y * (180 - y))
  IN IF x <= 180 THEN h(x) ELSE -h(x - 180)

\* math.cos of an angle in 1e-8 rad, in 1/1000.
Cos(rad) == Sin(rad + Radians(90000))

\* math.cos(math.radians(lat)) of a latitude in 1e-7 degree, in 1/100.
CosLat(lat) == Cos(Radians((lat \div 10000000) * 1000)) \div 10

\* (speed_ms * dt / 111320) * trig: speed in mm/s, dt in s, trig in 1/1000,
\* result in 1e-7 degree (1 mm = 250/2783 units, as 111320 m = 1 degree).
Along(speed_ms, dt, trig) == (((speed_ms * dt) \div 2783) * trig) \div 4

\* dlon / math.cos(math.radians(lat))
OverCosLat(dlon, lat) == (dlon * 100) \div CosLat(lat)

\* x * num / den for 0 < den and num * den within the integers of the
\* model, without forming x * num.
Scale(x, num, den) == (x \div den) * num + ((x % den) * num) \div den

\* knots * 0.514444: 1e-2 knot to mm/s.
KnotsToMs(knots) == 5 * knots + Scale(knots, 14444, 100000)

\* round(x, n): round half to even to a multiple of m units.
Round(x, m) ==
  LET q == x \div m
      r == x % m
  IN IF 2 * r < m THEN q * m
     ELSE IF 2 * r > m THEN (q + 1) * m
     ELSE IF q % 2 = 0 THEN q * m ELSE (q + 1) * m

\* math.sqrt, rounded down.
RECURSIVE SqrtSearch(_, _, _)
SqrtSearch(x, lo, hi) ==
  IF lo >= hi THEN lo
  ELSE LET mid == (lo + hi + 1) \div 2
       IN IF mid * mid <= x THEN SqrtSearch(x, mid, hi)
          ELSE SqrtSearch(x, lo, mid - 1)

Sqrt(x) == SqrtSearch(x, 0, 46340)

\* math.atan2(y, x) in 1e-8 rad (a quadratic approximation of the arc
\* tangent on the first octant, reflected into the other seven).
Atan2(y, x) ==
  LET a == Abs(x)
      b == Abs(y)
      oct(z) == 45 * z + (1564 * z * (1000 - z)) \div 100000
      ang == IF a = 0 /\ b = 0 THEN 0
             ELSE IF a >= b THEN oct((b * 1000) \div a)
             ELSE 90000 - oct((a * 1000) \div b)
      deg == IF x >= 0 THEN (IF y >= 0 THEN ang ELSE -ang)
             ELSE (IF y >= 0 THEN 180000 - ang ELSE ang - 180000)
  IN Radians(deg)

\* m/s * 1.94384: mm/s to 1e-2 knot.
MsToKnots(speed_ms) == ((speed_ms \div 100) * 19438) \div 1000

(***************************************************************************)
(* motion_patterns.py: the pattern objects.  Every pattern is a record     *)
(* with the same fields; a class leaves the fields of the others at their  *)
(* blank values.                                                           *)
(***************************************************************************)
BlankPattern ==
  [kind |-> "none", center_lat |-> 0, center_lon |-> 0, radius_deg |-> 0,
   angular_speed |-> 0, start_lat |-> 0, start_lon |-> 0, mach_number |-> 0,
   velocity_knots |-> 0, velocity_ms |-> 0, direction_rad |-> 0,
   initial_direction_rad |-> 0,
   change_interval |-> 0, start_time |-> 0, segment_positions |-> <<>>,
   speed_profile |-> <<>>, segments |-> <<>>]

\* start_time if start_time is not None else time.time()
StartTime(start_time, clock) ==
  IF start_time # None THEN start_time[1] ELSE clock

\* ---- CircularMotion ----
CircularMotion(center_lat, center_lon, radius_deg, angular_speed) ==
  [BlankPattern EXCEPT !.kind = "circular", !.center_lat = center_lat,
     !.center_lon = center_lon, !.radius_deg = radius_deg,
     !.angular_speed = angular_speed]

\* (current_time * angular_speed) % (2 * math.pi)
CircularTheta(p, current_time) ==
  (current_time * p.angular_speed) % 628318530

CircularGetPosition(p, current_time) ==
  LET theta == CircularTheta(p, current_time)
  IN [lat |-> p.center_lat + (p.radius_deg * Cos(theta)) \div 1000,
      lon |-> p.center_lon + (p.radius_deg * Sin(theta)) \div 1000]

\* The two rates of get_velocity / get_heading in mm/s: radius_deg *
\* angular_speed is in 1e-7 degree/s, and 1e-7 degree is 11.132 mm.
CircularRates(p, current_time) ==
  LET theta == CircularTheta(p, current_time)
      lat == CircularGetPosition(p, current_time).lat
      rate == (p.radius_deg * (p.angular_speed \div 1000)) \div 100000
      dlat_dt == (-rate * Sin(theta)) \div 1000
      dlon_dt == (rate * Cos(theta)) \div 1000
  IN [dlat_dt_m |-> (dlat_dt * 11132) \div 1000,
      dlon_dt_m |-> (((dlon_dt * 11132) \div 1000) * CosLat(lat)) \div 100]

CircularGetVelocity(p, current_time) ==
  LET r == CircularRates(p, current_time)
      a == r.dlat_dt_m \div 10
      b == r.dlon_dt_m \div 10
      speed_ms == Sqrt(a * a + b * b) * 10
  IN MsToKnots(speed_ms)

CircularGetHeading(p, current_time) ==
  LET r == CircularRates(p, current_time)
      track_rad == Atan2(r.dlon_dt_m, r.dlat_dt_m)
  IN Degrees(track_rad) % 360000

\* ---- SupersonicLinearMotion ----
\* mach_number is in 1/100 Mach; velocity_ms = mach_number * 343.0.
SupersonicLinearMotion(start_lat, start_lon, mach_number, direction_deg, start_time, clock) ==
  [BlankPattern EXCEPT !.kind = "supersonic", !.start_lat = start_lat,
     !.start_lon = start_lon, !.mach_number = mach_number,
     !.direction_rad = Radians(direction_deg),
     !.start_time = StartTime(start_time, clock),
     !.velocity_ms = mach_number * 3430]

SupersonicGetPosition(p, current_time) ==
  LET dt == current_time - p.start_time
      dlat == Along(p.velocity_ms, dt, Cos(p.direction_rad))
      dlon == Along(p.velocity_ms, dt, Sin(p.direction_rad))
      lat == p.start_lat + dlat
  IN [lat |-> lat, lon |-> p.start_lon + OverCosLat(dlon, lat)]

SupersonicGetVelocity(p, current_time) == MsToKnots(p.velocity_ms)

SupersonicGetHeading(p, current_time) == Degrees(p.direction_rad) % 360000

\* ---- InstantDirectionChangeMotion ----
\* range(10) of _compute_segments
DirectionChanges == 10

\* The loop body of _compute_segments, n more times: appends the entry that
\* follows the last one of acc.
RECURSIVE DirectionChangeLoop(_, _, _, _)
DirectionChangeLoop(velocity_ms, change_interval, acc, n) ==
  IF n = 0 THEN acc
  ELSE
    LET last == acc[Len(acc)]
        current_time == last.time + change_interval
        dt == change_interval
        dlat == Along(velocity_ms, dt, Cos(last.direction))
        dlon == Along(velocity_ms, dt, Sin(last.direction))
        current_lat == last.lat + dlat
        current_lon == last.lon + OverCosLat(dlon, current_lat)
        current_dir == Radians((Degrees(last.direction) + 90000) % 360000)
    IN DirectionChangeLoop(velocity_ms, change_interval,
         Append(acc, [time |-> current_time, lat |-> current_lat,
                      lon |-> current_lon, direction |-> current_dir]),
         n - 1)

DirectionChangeComputeSegments(start_lat, start_lon, velocity_ms, initial_direction_rad, change_interval) ==
  DirectionChangeLoop(velocity_ms, change_interval,
    <<[time |-> 0, lat |-> start_lat, lon |-> start_lon,
       direction |-> initial_direction_rad]>>,
    DirectionChanges)

InstantDirectionChangeMotion(start_lat, start_lon, velocity_knots, initial_direction_deg, change_interval_sec, start_time, clock) ==
  LET velocity_ms == KnotsToMs(velocity_knots)
      initial_direction_rad == Radians(initial_direction_deg)
  IN [BlankPattern EXCEPT !.kind = "direction_change",
        !.start_lat = start_lat, !.start_lon = start_lon,
        !.velocity_knots = velocity_knots, !.velocity_ms = velocity_ms,
        !.initial_direction_rad = initial_direction_rad,
        !.change_interval = change_interval_sec,
        !.start_time = StartTime(start_time, clock),
        !.segment_positions =
           DirectionChangeComputeSegments(start_lat, start_lon, velocity_ms,
             initial_direction_rad, change_interval_sec)]

\* The loop of get_position: the index of the first entry i with
\* seg.time <= dt < next_seg.time, or 0 when the loop falls through.
DirectionChangePositionSegment(p, dt) ==
  LET segs == p.segment_positions
      hit == {i \in 1..(Len(segs) - 1) :
                segs[i].time <= dt /\ dt < segs[i + 1].time}
  IN IF hit = {} THEN 0 ELSE CHOOSE i \in hit : \A j \in hit : i <= j

DirectionChangeGetPosition(p, current_time) ==
  LET dt == current_time - p.start_time
      i == DirectionChangePositionSegment(p, dt)
      seg == IF i # 0 THEN p.segment_positions[i]
             ELSE p.segment_positions[Len(p.segment_positions)]
      time_in_segment == dt - seg.time
      dlat == Along(p.velocity_ms, time_in_segment, Cos(seg.direction))
      dlon == Along(p.velocity_ms, time_in_segment, Sin(seg.direction))
      lat == seg.lat + dlat
  IN [lat |-> lat, lon |-> seg.lon + OverCosLat(dlon, lat)]

DirectionChangeGetVelocity(p, current_time) == p.velocity_knots

\* The loop of get_heading with a closed test, seg.time <= dt <= next.time.
DirectionChangeHeadingSegmentClosed(p, dt) ==
  LET segs == p.segment_positions
      hit == {i \in 1..(Len(segs) - 1) :
                segs[i].time <= dt /\ dt <= segs[i + 1].time}
  IN IF hit = {} THEN 0 ELSE CHOOSE i \in hit : \A j \in hit : i <= j

\* The loop of get_heading.
DirectionChangeHeadingSegment(p, dt) ==
  LET segs == p.segment_positions
      hit == {i \in 1..(Len(segs) - 1) :
                segs[i].time <= dt /\ dt < segs[i + 1].time}
  IN IF hit = {} THEN 0 ELSE CHOOSE i \in hit : \A j \in hit : i <= j

DirectionChangeGetHeading(p, current_time) ==
  LET dt == current_time - p.start_time
      i == DirectionChangeHeadingSegment(p, dt)
      seg == IF i # 0 THEN p.segment_positions[i]
             ELSE p.segment_positions[Len(p.segment_positions)]
  IN Degrees(seg.direction) % 360000

\* ---- InstantAccelerationMotion ----
\* The for loop of _compute_segments over the rest of the profile.  An entry
\* that is not a pair cannot be unpacked into (duration_sec, speed_knots):
\* the loop raises ValueError there.
RECURSIVE AccelerationLoop(_, _, _, _, _, _)
AccelerationLoop(profile, direction_rad, acc, current_lat, current_lon, current_time) ==
  IF profile = <<>> THEN [raised |-> "none", segments |-> acc]
  ELSE IF Len(Head(profile)) # 2
    THEN [raised |-> "ValueError", segments |-> acc]
  ELSE
    LET duration_sec == Head(profile)[1]
        speed_knots == Head(profile)[2]
        speed_ms == KnotsToMs(speed_knots)
        seg == [start_time |-> current_time,
                end_time |-> current_time + duration_sec,
                start_lat |-> current_lat, start_lon |-> current_lon,
                speed_knots |-> speed_knots, speed_ms |-> speed_ms]
        dlat == Along(speed_ms, duration_sec, Cos(direction_rad))
        dlon == Along(speed_ms, duration_sec, Sin(direction_rad))
        next_lat == current_lat + dlat
    IN AccelerationLoop(Tail(profile), direction_rad, Append(acc, seg),
         next_lat, current_lon + OverCosLat(dlon, next_lat),
         current_time + duration_sec)

AccelerationComputeSegments(start_lat, start_lon, direction_rad, speed_profile) ==
  AccelerationLoop(speed_profile, direction_rad, <<>>, start_lat, start_lon, 0)

\* The constructor: [raised, obj]; obj is the new object when nothing is
\* raised.
InstantAccelerationMotion(start_lat, start_lon, direction_deg, speed_profile, start_time, clock) ==
  LET direction_rad == Radians(direction_deg)
      c == AccelerationComputeSegments(start_lat, start_lon, direction_rad,
                                       speed_profile)
  IN [raised |-> c.raised,
      obj |-> [BlankPattern EXCEPT !.kind = "acceleration",
                 !.start_lat = start_lat, !.start_lon = start_lon,
                 !.direction_rad = direction_rad,
                 !.speed_profile = speed_profile,
                 !.start_time = StartTime(start_time, clock),
                 !.segments = c.segments]]

\* The loop of get_position: the index of the first segment with
\* start_time <= dt < end_time, or 0 when the loop falls through.
AccelerationPositionSegment(p, dt) ==
  LET hit == {i \in 1..Len(p.segments) :
                p.segments[i].start_time <= dt /\ dt < p.segments[i].end_time}
  IN IF hit = {} THEN 0 ELSE CHOOSE i \in hit : \A j \in hit : i <= j

\* After the loop of get_position: last_seg = self.segments[-1] and the
\* extrapolation from it.
AccelerationTailPosition(p, dt) ==
  LET last_seg == p.segments[Len(p.segments)]
      time_since_last == dt - last_seg.end_time
      dlat == Along(last_seg.speed_ms, time_since_last, Cos(p.direction_rad))
      dlon == Along(last_seg.speed_ms, time_since_last, Sin(p.direction_rad))
      lat == last_seg.start_lat + dlat
  IN [lat |-> lat, lon |-> last_seg.start_lon + OverCosLat(dlon, lat)]

\* get_position: [raised, lat, lon]; self.segments[-1] of an empty list
\* raises IndexError.
AccelerationGetPosition(p, current_time) ==
  LET dt == current_time - p.start_time
      i == AccelerationPositionSegment(p, dt)
  IN IF i # 0 THEN
       LET seg == p.segments[i]
           time_in_segment == dt - seg.start_time
           dlat == Along(seg.speed_ms, time_in_segment, Cos(p.direction_rad))
           dlon == Along(seg.speed_ms, time_in_segment, Sin(p.direction_rad))
           lat == seg.start_lat + dlat
       IN [raised |-> "none", lat |-> lat,
           lon |-> seg.start_lon + OverCosLat(dlon, lat)]
     ELSE IF p.segments = <<>> THEN
       [raised |-> "IndexError", lat |-> 0, lon |-> 0]
     ELSE
       LET t == AccelerationTailPosition(p, dt)
       IN [raised |-> "none", lat |-> t.lat, lon |-> t.lon]

\* The loop of get_velocity with a closed test, start <= dt <= end.
AccelerationVelocitySegmentClosed(p, dt) ==
  LET hit == {i \in 1..Len(p.segments) :
                p.segments[i].start_time <= dt /\ dt <= p.segments[i].end_time}
  IN IF hit = {} THEN 0 ELSE CHOOSE i \in hit : \A j \in hit : i <= j

\* The loop of get_velocity.
AccelerationVelocitySegment(p, dt) ==
  LET hit == {i \in 1..Len(p.segments) :
                p.segments[i].start_time <= dt /\ dt < p.segments[i].end_time}
  IN IF hit = {} THEN 0 ELSE CHOOSE i \in hit : \A j \in hit : i <= j

\* get_velocity: [raised, knots]
AccelerationGetVelocity(p, current_time) ==
  LET dt == current_time - p.start_time
      i == AccelerationVelocitySegment(p, dt)
  IN IF i # 0 THEN [raised |-> "none", knots |-> p.segments[i].speed_knots]
     ELSE IF p.segments = <<>> THEN [raised |-> "IndexError", knots |-> 0]
     ELSE [raised |-> "none",
           knots |-> p.segments[Len(p.segments)].speed_knots]

AccelerationGetHeading(p, current_time) == Degrees(p.direction_rad) % 360000

\* ---- MotionPattern: dispatch on the class of the object ----
\* get_position, get_velocity and get_heading of one pattern at one time, as
\* Aircraft.get_data and get_all_aircraft_for_radar call them in this order;
\* the first exception ends the caller.
PatternState(p, current_time) ==
  CASE p.kind = "circular" ->
         LET pos == CircularGetPosition(p, current_time)
         IN [raised |-> "none", lat |-> pos.lat, lon |-> pos.lon,
             gs |-> CircularGetVelocity(p, current_time),
             track |-> CircularGetHeading(p, current_time)]
    [] p.kind = "supersonic" ->
         LET pos == SupersonicGetPosition(p, current_time)
         IN [raised |-> "none", lat |-> pos.lat, lon |-> pos.lon,
             gs |-> SupersonicGetVelocity(p, current_time),
             track |-> SupersonicGetHeading(p, current_time)]
    [] p.kind = "direction_change" ->
         LET pos == DirectionChangeGetPosition(p, current_time)
         IN [raised |-> "none", lat |-> pos.lat, lon |-> pos.lon,
             gs |-> DirectionChangeGetVelocity(p, current_time),
             track |-> DirectionChangeGetHeading(p, current_time)]
    [] p.kind = "acceleration" ->
         LET pos == AccelerationGetPosition(p, current_time)
             vel == AccelerationGetVelocity(p, current_time)
         IN [raised |-> IF pos.raised # "none" THEN pos.raised ELSE vel.raised,
             lat |-> pos.lat, lon |-> pos.lon, gs |-> vel.knots,
             track |-> AccelerationGetHeading(p, current_time)]

(***************************************************************************)
(* server.py: Aircraft.                                                    *)
(***************************************************************************)
Aircraft(icao_hex, motion_pattern, altitude_ft, flight_number, is_anomalous, has_adsb, adsb_accurate, adsb_gs_override, adsb_track_override) ==
  [icao_hex |-> icao_hex, motion_pattern |-> motion_pattern,
   altitude_ft |-> altitude_ft, flight_number |-> flight_number,
   is_anomalous |-> is_anomalous, has_adsb |-> has_adsb,
   adsb_accurate |-> adsb_accurate, adsb_gs_override |-> adsb_gs_override,
   adsb_track_override |-> adsb_track_override]

\* The dict get_data returns: the position st of the pattern with the speed
\* and the track chosen for the report.  round(lat, 6), round(gs, 1) and
\* round(track, 2) round to 10 units of the model.
ReportDict(aircraft, st, gs_knots, track_deg) ==
  [hex |-> aircraft.icao_hex, lat |-> Round(st.lat, 10),
   lon |-> Round(st.lon, 10), alt_baro |-> aircraft.altitude_ft,
   alt_geom |-> aircraft.altitude_ft + 100, gs |-> Round(gs_knots, 10),
   track |-> Round(track_deg, 10), true_heading |-> Round(track_deg, 10),
   flight |-> aircraft.flight_number, seen_pos |-> 0]

\* The speed and the track get_data reports.
ReportGs(aircraft, actual_gs_knots) ==
  IF aircraft.adsb_accurate THEN actual_gs_knots
  ELSE IF aircraft.adsb_gs_override # None THEN aircraft.adsb_gs_override[1]
  ELSE actual_gs_knots

ReportTrack(aircraft, actual_track_deg) ==
  IF aircraft.adsb_accurate THEN actual_track_deg
  ELSE IF aircraft.adsb_track_override # None
    THEN aircraft.adsb_track_override[1]
  ELSE actual_track_deg

\* get_data after the three calls of the pattern, which gave st.
GetDataOf(aircraft, st) ==
  IF st.raised # "none" THEN [raised |-> st.raised, data |-> None]
  ELSE IF ~aircraft.has_adsb THEN [raised |-> "none", data |-> None]
  ELSE [raised |-> "none",
        data |-> Some(ReportDict(aircraft, st, ReportGs(aircraft, st.gs),
                                 ReportTrack(aircraft, st.track)))]

\* get_data without the has_adsb test.
GetDataOfNoTransponderTest(aircraft, st) ==
  IF st.raised # "none" THEN [raised |-> st.raised, data |-> None]
  ELSE [raised |-> "none",
        data |-> Some(ReportDict(aircraft, st, ReportGs(aircraft, st.gs),
                                 ReportTrack(aircraft, st.track)))]

GetDataNoTransponderTest(aircraft, current_time, timestamp_for_json) ==
  GetDataOfNoTransponderTest(aircraft,
    PatternState(aircraft.motion_pattern, current_time))

\* get_data with the overrides applied whether or not adsb_accurate is set.
OverrideOr(override, actual) == IF override # None THEN override[1] ELSE actual

GetDataOfOverrideAlways(aircraft, st) ==
  IF st.raised # "none" THEN [raised |-> st.raised, data |-> None]
  ELSE IF ~aircraft.has_adsb THEN [raised |-> "none", data |-> None]
  ELSE [raised |-> "none",
        data |-> Some(ReportDict(aircraft, st,
                        OverrideOr(aircraft.adsb_gs_override, st.gs),
                        OverrideOr(aircraft.adsb_track_override, st.track)))]

GetDataOverrideAlways(aircraft, current_time, timestamp_for_json) ==
  GetDataOfOverrideAlways(aircraft,
    PatternState(aircraft.motion_pattern, current_time))

\* Aircraft.get_data: [raised, data]; data is None or Some(dict).  The
\* pattern is queried before has_adsb is looked at.
GetData(aircraft, current_time, timestamp_for_json) ==
  GetDataOf(aircraft, PatternState(aircraft.motion_pattern, current_time))

(***************************************************************************)
(* server.py: AircraftManager.                                             *)
(***************************************************************************)
HexDigits ==
  <<"0", "1", "2", "3", "4", "5", "6", "7", "8", "9", "A", "B", "C", "D", "E", "F">>

HexValue(c) == (CHOOSE k \in 1..16 : HexDigits[k] = c) - 1

\* int(s, 16) of a string of hex digits
RECURSIVE ParseHex(_)
ParseHex(s) ==
  IF s = <<>> THEN 0
  ELSE 16 * ParseHex(SubSeq(s, 1, Len(s) - 1)) + HexValue(s[Len(s)])

\* The hex digits of n >= 0, most significant first, without padding.
RECURSIVE HexOf(_)
HexOf(n) ==
  IF n < 16 THEN <<HexDigits[n + 1]>>
  ELSE Append(HexOf(n \div 16), HexDigits[(n % 16) + 1])

\* f"{n:06X}": padded with zeros to at least 6 characters.
RECURSIVE ZeroPad(_, _)
ZeroPad(s, width) == IF Len(s) >= width THEN s ELSE ZeroPad(<<"0">> \o s, width)

FormatHex06(n) == ZeroPad(HexOf(n), 6)

\* AircraftManager._generate_icao_hex
GenerateIcaoHex(e, index) ==
  LET base_hex == IF e.ICAO_HEX # <<>> THEN ParseHex(e.ICAO_HEX) ELSE 11465763
  IN FormatHex06(base_hex + index)

\* ANOMALOUS_AIRCRAFT_COUNT as the module computes it from the environment.
AnomalousAircraftCount(e) ==
  IF e.ENABLE_ANOMALIES THEN e.ANOMALOUS_AIRCRAFT_COUNT ELSE 0

\* What the random source returns while one anomalous aircraft is built, in
\* the order of the calls; a draw the code does not make is 0.
\*   direction, dlat, dlon  random.uniform(0, 360), random.uniform(-0.1, 0.1)
\*   r_adsb, r_accurate     random.random(), in 1/100
\*   track_delta            random.uniform(-30, 30)
BlankDraw ==
  [direction |-> 0, dlat |-> 0, dlon |-> 0, anomaly_type |-> "none",
   mach |-> 0, velocity_knots |-> 0, change_interval |-> 0,
   speed1 |-> 0, speed3 |-> 0, speed4 |-> 0, altitude |-> 0,
   r_adsb |-> 0, r_accurate |-> 0, gs_override |-> 0, track_delta |-> 0]

MachChoices == {200, 431}
MachDraws == {431}
RandomChoices == {5, 50}
AccurateChoices == {60}
SupersonicDirections == {340000}

\* random.uniform(a, b) takes its values between the two bounds, in either
\* order.
Between(x, a, b) == (a <= x /\ x <= b) \/ (b <= x /\ x <= a)

AnomalyDraws(e) ==
  LET common == [BlankDraw EXCEPT !.dlat = 123456, !.dlon = -654321]
      has(r) == r < e.ANOMALY_ADSB_PROBABILITY
      supersonic ==
        {[common EXCEPT !.anomaly_type = "supersonic", !.direction = d,
            !.mach = m, !.r_adsb = r,
            !.r_accurate = IF has(r) THEN ra ELSE 0,
            !.gs_override = IF has(r) /\ ra >= 30 THEN 35055 ELSE 0,
            !.track_delta = IF has(r) /\ ra >= 30 THEN -29996 ELSE 0] :
           d \in SupersonicDirections,
           m \in {x \in MachDraws :
                    Between(x, e.SUPERSONIC_MACH_MIN, e.SUPERSONIC_MACH_MAX)},
           r \in RandomChoices, ra \in AccurateChoices}
      direction_change ==
        {[common EXCEPT !.anomaly_type = "direction_change",
            !.direction = 200000, !.velocity_knots = 45037,
            !.change_interval = 3, !.altitude = 31234, !.r_adsb = r] :
           r \in RandomChoices}
      acceleration ==
        {[common EXCEPT !.anomaly_type = "acceleration",
            !.direction = 200000, !.speed1 = 40000, !.speed3 = 61250,
            !.speed4 = 25000, !.altitude = 15000, !.r_adsb = r] :
           r \in RandomChoices}
  IN supersonic \cup direction_change \cup acceleration

\* f"SYN{n:03d}  " and f"ANOM{n:02d}   ": the prefix, the number and the
\* width it is padded to.
FlightNumber(prefix, n, width) ==
  [prefix |-> prefix, number |-> n, width |-> width]

\* The body of the first loop of _initialize_aircraft.
NormalAircraft(e, aircraft_index) ==
  Aircraft(GenerateIcaoHex(e, aircraft_index),
           CircularMotion(e.TX_LAT, e.TX_LON, e.RADIUS_DEG, e.ANGULAR_SPEED),
           e.ALT_BARO_FT, FlightNumber("SYN", aircraft_index + 1, 3),
           FALSE, TRUE, TRUE, None, None)

\* The body of the second loop of _initialize_aircraft, with the draws d
\* made at the clock time clock.
AnomalousAircraft(e, aircraft_index, i, d, clock) ==
  LET icao_hex == GenerateIcaoHex(e, aircraft_index)
      direction == d.direction
      start_lat == e.TX_LAT + d.dlat
      start_lon == e.TX_LON + d.dlon
      motion ==
        IF d.anomaly_type = "supersonic"
        THEN SupersonicLinearMotion(start_lat, start_lon, d.mach, direction,
                                    None, clock)
        ELSE IF d.anomaly_type = "direction_change"
        THEN InstantDirectionChangeMotion(start_lat, start_lon,
               d.velocity_knots, direction, d.change_interval, None, clock)
        ELSE InstantAccelerationMotion(start_lat, start_lon, direction,
               <<<<3, d.speed1>>, <<2, 0>>, <<3, d.speed3>>, <<4, d.speed4>>>>,
               None, clock).obj
      altitude_ft ==
        IF d.anomaly_type = "supersonic" THEN e.SUPERSONIC_ALTITUDE_FT
        ELSE d.altitude
      has_adsb == d.r_adsb < e.ANOMALY_ADSB_PROBABILITY
      misreports == has_adsb /\ d.anomaly_type = "supersonic"
                      /\ ~(d.r_accurate < 30)
  IN Aircraft(icao_hex, motion, altitude_ft, FlightNumber("ANOM", i + 1, 2),
              TRUE, has_adsb, ~misreports,
              IF misreports THEN Some(d.gs_override) ELSE None,
              IF misreports THEN Some(direction + d.track_delta) ELSE None)

\* AircraftManager._initialize_aircraft: draws[i] are the draws of the i-th
\* anomalous aircraft.
InitializeAircraft(e, draws, clock) ==
  [k \in 1..e.NORMAL_AIRCRAFT_COUNT |-> NormalAircraft(e, k - 1)]
  \o [i \in 1..AnomalousAircraftCount(e) |->
        AnomalousAircraft(e, e.NORMAL_AIRCRAFT_COUNT + i - 1, i - 1, draws[i],
                          clock)]

\* One more entry d in front of the entries rest; the first exception
\* ends the call.
Collect(d, rest) ==
  IF d.raised # "none" THEN [raised |-> d.raised, data |-> <<>>]
  ELSE IF rest.raised # "none" THEN rest
  ELSE [raised |-> "none", data |-> d.data \o rest.data]

\* AircraftManager.get_all_aircraft_data: [raised, data]; the entries that
\* are None are left out.
RECURSIVE AllAircraftData(_, _, _)
AllAircraftData(list, current_time, timestamp_for_json) ==
  IF list = <<>> THEN [raised |-> "none", data |-> <<>>]
  ELSE Collect(GetData(Head(list), current_time, timestamp_for_json),
               AllAircraftData(Tail(list), current_time, timestamp_for_json))

\* The entry get_all_aircraft_for_radar appends for one aircraft.
TrueState(aircraft, st) ==
  [raised |-> st.raised,
   data |-> <<[hex |-> aircraft.icao_hex, lat |-> st.lat, lon |-> st.lon,
               alt_geom |-> aircraft.altitude_ft + 100, gs |-> st.gs,
               track |-> st.track]>>]

\* AircraftManager.get_all_aircraft_for_radar: [raised, data]
RECURSIVE AllAircraftForRadar(_, _)
AllAircraftForRadar(list, current_time) ==
  IF list = <<>> THEN [raised |-> "none", data |-> <<>>]
  ELSE Collect(TrueState(Head(list),
                 PatternState(Head(list).motion_pattern, current_time)),
               AllAircraftForRadar(Tail(list), current_time))

(***************************************************************************)
(* server.py: the synthetic detections.  Distances are in millimetres,     *)
(* Doppler shifts in millihertz, radio frequencies in hertz and snr_db in  *)
(* decibel.                                                                *)
(***************************************************************************)
\* 6371000 * (an angle in radians), for an angle in 1e-7 degree, in mm
\* (6371000 * pi / 180 = 111194.9 m to the degree, 11.1195 mm to the unit).
EarthArc(angle) == 11 * angle + Scale(angle, 1195, 10000)

\* math.sqrt(x**2 + y**2) in mm: the root of the whole metres, corrected to
\* first order for what the whole metres leave out.
Hypot(x, y) ==
  LET xh == Abs(x) \div 1000
      xl == Abs(x) % 1000
      yh == Abs(y) \div 1000
      yl == Abs(y) % 1000
      s == Sqrt(xh * xh + yh * yh)
      rem == xh * xh + yh * yh - s * s
  IN IF s = 0 THEN Sqrt(xl * xl + yl * yl)
     ELSE 1000 * s
          + (1000 * rem + 2 * (xh * xl + yh * yl) + (xl * xl + yl * yl) \div 1000)
              \div (2 * s)

\* 2 * 6371000 * math.asin(math.sqrt(a)) of the haversine formula, in mm.
\* The angles of the model are below one degree, where sin x and asin x are
\* x to within 1e-5 of x, so that the surface distance is the root of
\* (R dlat)^2 + cos(lat1) cos(lat2) (R dlon)^2.
SurfaceDist(lat1, lon1, lat2, lon2) ==
  Hypot(EarthArc(lat2 - lat1),
        Scale(EarthArc(lon2 - lon1), Sqrt(CosLat(lat1) * CosLat(lat2)), 100))

\* The inner function distance of calculate_bistatic_range; altitudes in mm.
Distance(lat1, lon1, alt1, lat2, lon2, alt2) ==
  Hypot(SurfaceDist(lat1, lon1, lat2, lon2), alt2 - alt1)

\* The range of a radar whose receiver stands at the transmitter: the
\* transmitter leg, twice.
CalculateMonostaticRange(aircraft_lat, aircraft_lon, aircraft_alt, tx_lat, tx_lon, tx_alt, rx_lat, rx_lon, rx_alt) ==
  2 * Distance(tx_lat, tx_lon, tx_alt, aircraft_lat, aircraft_lon, aircraft_alt)

\* calculate_bistatic_range
CalculateBistaticRange(aircraft_lat, aircraft_lon, aircraft_alt, tx_lat, tx_lon, tx_alt, rx_lat, rx_lon, rx_alt) ==
  Distance(tx_lat, tx_lon, tx_alt, aircraft_lat, aircraft_lon, aircraft_alt)
    + Distance(aircraft_lat, aircraft_lon, aircraft_alt, rx_lat, rx_lon, rx_alt)

\* x * 0.3048: feet to mm.
FeetToMetres(feet) == 304 * feet + (8 * feet) \div 10

\* An altitude the code takes as metres, in mm.
Metres(alt) == 1000 * alt

\* velocity_ms * 2 * frequency / 299792458: mm/s and Hz to mHz.
DopplerShift(velocity_ms, frequency) ==
  Scale(velocity_ms, (2 * frequency) \div 299792, 1000)

\* hash(s) of a string of hex digits under the key of the process: a
\* signed 16-bit mix of the key and the characters.
RECURSIVE StrHashLoop(_, _)
StrHashLoop(h, s) ==
  IF s = <<>> THEN h
  ELSE StrHashLoop((h * 31 + HexValue(Head(s)) + 48) % 65536, Tail(s))

StrHash(secret, s) ==
  LET h == StrHashLoop((secret * 7919 + 5381) % 65536, s)
  IN IF h >= 32768 THEN h - 65536 ELSE h

\* 15.0 + (hash(aircraft["hex"]) % 10)
SnrDb(secret, hex) == 15 + (StrHash(secret, hex) % 10)

\* The detection of one true state.
Detection(e, aircraft, radar_config, detection_id, clock, secret) ==
  [detection_id |-> detection_id,
   timestamp |-> clock,
   bistatic_range_m |->
     Round(CalculateBistaticRange(aircraft.lat, aircraft.lon,
             FeetToMetres(aircraft.alt_geom), e.TX_LAT, e.TX_LON,
             Metres(e.TX_ALT), radar_config.lat, radar_config.lon,
             Metres(radar_config.alt)), 10),
   doppler_hz |->
     Round(DopplerShift(KnotsToMs(aircraft.gs), radar_config.frequency), 10),
   snr_db |-> SnrDb(secret, aircraft.hex),
   radar_id |-> radar_config.id,
   frequency_hz |-> radar_config.frequency,
   icao_hex |-> aircraft.hex]

\* The loop of generate_synthetic_detections over the true states from
\* index k on; uuids[k] is what uuid.uuid4() returns for the k-th state.
RECURSIVE DetectionsLoop(_, _, _, _, _, _, _)
DetectionsLoop(e, aircraft_data_list, k, radar_config, uuids, clock, secret) ==
  IF k > Len(aircraft_data_list) THEN <<>>
  ELSE <<Detection(e, aircraft_data_list[k], radar_config, uuids[k], clock,
                   secret)>>
       \o DetectionsLoop(e, aircraft_data_list, k + 1, radar_config, uuids,
                         clock, secret)

\* generate_synthetic_detections(aircraft_data_list, radar_config), called
\* at wall clock time clock in a process of hash key secret.
GenerateSyntheticDetections(e, aircraft_data_list, radar_config, uuids, clock, secret) ==
  IF aircraft_data_list = <<>> THEN <<>>
  ELSE DetectionsLoop(e, aircraft_data_list, 1, radar_config, uuids, clock,
                      secret)

\* Values uuid.uuid4() may return for the n states of one call.
UuidDraws(n) == {[k \in 1..n |-> first + k] : first \in {100, 200}}

(***************************************************************************)
(* The pattern classes used on their own: a caller constructs one pattern  *)
(* with arguments of its choice and queries it at times of its choice.     *)
(***************************************************************************)
StartPoints == {[lat |-> -349810003, lon |-> 1387081007]}
DirectionChoices == {0, 30000, 315000, -90000, 725000}
IntervalChoices == {-1, 0, 1, 2}
KnotsChoices == {45037}
StartTimeChoices == {None, Some(5)}
ClockStarts == {0, 4}

\* Entries of a speed profile: (duration_sec, speed_knots) pairs with a
\* hold, a zero and a negative duration, and one entry that is not a pair.
ProfileEntries == {<<2, 0>>, <<2, 40000>>, <<3, 61250>>, <<0, 30000>>,
                   <<-1, 30000>>, <<3>>}
ProfileDirections == {30000, 270000}

RECURSIVE SeqsUpTo(_, _)
SeqsUpTo(S, n) ==
  IF n = 0 THEN {<<>>}
  ELSE LET shorter == SeqsUpTo(S, n - 1)
       IN shorter \cup {Append(q, e) : q \in {r \in shorter : Len(r) = n - 1},
                                       e \in S}

Profiles == SeqsUpTo(ProfileEntries, MaxProfileLen)

BlankResult ==
  [op |-> "none", raised |-> "none", current_time |-> 0, dt |-> 0,
   lat |-> 0, lon |-> 0, gs |-> 0, track |-> 0,
   position_segment |-> -1, velocity_segment |-> -1, heading_segment |-> -1]

BlankReply ==
  [op |-> "none", raised |-> "none", current_time |-> 0, data |-> <<>>,
   port |-> 0, radar |-> None, timestamp |-> 0]

InitServerIdle ==
  /\ env = None
  /\ random_state = <<>>
  /\ hash_secret = 0
  /\ radar_configs = <<>>
  /\ aircraft_list = <<>>
  /\ reply = BlankReply

InitMotion ==
  /\ now \in ClockStarts
  /\ pattern = None
  /\ result = BlankResult
  /\ pc = "patterns"
  /\ InitServerIdle

NewCircular ==
  /\ pc = "patterns"
  /\ result.op = "none"
  /\ \E c \in StartPoints :
       pattern' = Some(CircularMotion(c.lat, c.lon, 500000, 1000000))
  /\ result' = [BlankResult EXCEPT !.op = "construct"]
  /\ UNCHANGED <<now, env, radar_configs, aircraft_list, pc, reply>>
  /\ UNCHANGED <<random_state, hash_secret>>

NewSupersonic ==
  /\ pc = "patterns"
  /\ result.op = "none"
  /\ \E s \in StartPoints, mach \in MachChoices, d \in DirectionChoices,
        st \in StartTimeChoices :
       pattern' = Some(SupersonicLinearMotion(s.lat, s.lon, mach, d, st, now))
  /\ result' = [BlankResult EXCEPT !.op = "construct"]
  /\ UNCHANGED <<now, env, radar_configs, aircraft_list, pc, reply>>
  /\ UNCHANGED <<random_state, hash_secret>>

NewDirectionChange ==
  /\ pc = "patterns"
  /\ result.op = "none"
  /\ \E s \in StartPoints, v \in KnotsChoices, d \in DirectionChoices,
        ci \in IntervalChoices, st \in StartTimeChoices :
       pattern' = Some(InstantDirectionChangeMotion(s.lat, s.lon, v, d, ci,
                                                    st, now))
  /\ result' = [BlankResult EXCEPT !.op = "construct"]
  /\ UNCHANGED <<now, env, radar_configs, aircraft_list, pc, reply>>
  /\ UNCHANGED <<random_state, hash_secret>>

\* A constructor that raises gives the caller no object.  (Each behaviour
\* follows one object: result.op = "none" until the constructor has run.)
NewAcceleration ==
  /\ pc = "patterns"
  /\ result.op = "none"
  /\ \E s \in StartPoints, d \in ProfileDirections, prof \in Profiles,
        st \in StartTimeChoices :
       LET c == InstantAccelerationMotion(s.lat, s.lon, d, prof, st, now)
       IN /\ pattern' = IF c.raised = "none" THEN Some(c.obj) ELSE None
          /\ result' = [BlankResult EXCEPT !.op = "construct",
                                           !.raised = c.raised]
  /\ UNCHANGED <<now, env, radar_configs, aircraft_list, pc, reply>>
  /\ UNCHANGED <<random_state, hash_secret>>

\* The segment each lookup of a query used: an index into the segment list,
\* 0 for the code after the loop, -1 when the method has no lookup.
LookupSegments(p, dt) ==
  CASE p.kind = "direction_change" ->
         [position |-> DirectionChangePositionSegment(p, dt), velocity |-> -1,
          heading |-> DirectionChangeHeadingSegment(p, dt)]
    [] p.kind = "acceleration" ->
         [position |-> AccelerationPositionSegment(p, dt),
          velocity |-> AccelerationVelocitySegment(p, dt), heading |-> -1]
    [] OTHER -> [position |-> -1, velocity |-> -1, heading |-> -1]

\* get_position, get_velocity and get_heading of the pattern at one time.
QueryPattern ==
  /\ pc = "patterns"
  /\ pattern # None
  /\ LET p == pattern[1]
         base == IF p.kind = "circular" THEN now ELSE p.start_time
     IN \E current_time \in (base - MaxBefore)..(base + MaxElapsed) :
          LET st == PatternState(p, current_time)
              dt == current_time - p.start_time
              lk == LookupSegments(p, dt)
          IN result' = [op |-> "query", raised |-> st.raised,
                        current_time |-> current_time, dt |-> dt,
                        lat |-> st.lat, lon |-> st.lon, gs |-> st.gs,
                        track |-> st.track,
                        position_segment |-> lk.position,
                        velocity_segment |-> lk.velocity,
                        heading_segment |-> lk.heading]
  /\ UNCHANGED <<now, pattern, env, radar_configs, aircraft_list, pc, reply>>
  /\ UNCHANGED <<random_state, hash_secret>>

NextMotion ==
  \/ NewCircular
  \/ NewSupersonic
  \/ NewDirectionChange
  \/ NewAcceleration
  \/ QueryPattern

SpecMotion == InitMotion /\ [][NextMotion]_vars

(***************************************************************************)
(* Properties of the piecewise patterns.                                   *)
(***************************************************************************)
\* The position reached from (lat, lon) by running at a constant speed and
\* direction for a duration.
RunFrom(lat, lon, speed_ms, direction_rad, duration) ==
  LET dlat == Along(speed_ms, duration, Cos(direction_rad))
      dlon == Along(speed_ms, duration, Sin(direction_rad))
      lat2 == lat + dlat
  IN [lat |-> lat2, lon |-> lon + OverCosLat(dlon, lat2)]

\* The pattern under test is a piecewise pattern whose segments all have a
\* strictly positive duration.
PositiveDirectionChange ==
  /\ pattern # None
  /\ pattern[1].kind = "direction_change"
  /\ pattern[1].change_interval > 0

PositiveAcceleration ==
  /\ pattern # None
  /\ pattern[1].kind = "acceleration"
  /\ pattern[1].segments # <<>>
  /\ \A i \in 1..Len(pattern[1].segments) :
       pattern[1].segments[i].end_time > pattern[1].segments[i].start_time

Queried == result.op = "query" /\ result.raised = "none"

ResultPosition == [lat |-> result.lat, lon |-> result.lon]

\* C2: a query at the end time of a precomputed segment (the last one
\* included) returns the position that running that segment's constant
\* velocity for its whole duration reaches, for both piecewise patterns.
C2_ContinuousAtEveryBoundary ==
  /\ (PositiveDirectionChange /\ Queried) =>
       LET p == pattern[1]
           segs == p.segment_positions
       IN \A i \in 1..(Len(segs) - 1) :
            result.dt = segs[i + 1].time =>
              ResultPosition = RunFrom(segs[i].lat, segs[i].lon, p.velocity_ms,
                                 segs[i].direction, segs[i + 1].time - segs[i].time)
  /\ (PositiveAcceleration /\ Queried) =>
       LET p == pattern[1]
           segs == p.segments
       IN \A i \in 1..Len(segs) :
            result.dt = segs[i].end_time =>
              ResultPosition = RunFrom(segs[i].start_lat, segs[i].start_lon,
                                 segs[i].speed_ms, p.direction_rad,
                                 segs[i].end_time - segs[i].start_time)

\* C3: a query before the start of the pattern (dt < 0) returns the
\* position, heading and speed extrapolated backwards from segment 0.
C3_BeforeStartUsesSegment0 ==
  /\ (PositiveDirectionChange /\ Queried /\ result.dt < 0) =>
       LET p == pattern[1]
           seg0 == p.segment_positions[1]
       IN /\ ResultPosition = RunFrom(seg0.lat, seg0.lon, p.velocity_ms,
                                      seg0.direction, result.dt)
          /\ result.track = Degrees(seg0.direction) % 360000
          /\ result.gs = p.velocity_knots
  /\ (PositiveAcceleration /\ Queried /\ result.dt < 0) =>
       LET p == pattern[1]
           seg0 == p.segments[1]
       IN /\ ResultPosition = RunFrom(seg0.start_lat, seg0.start_lon,
                                      seg0.speed_ms, p.direction_rad, result.dt)
          /\ result.track = Degrees(p.direction_rad) % 360000
          /\ result.gs = seg0.speed_knots

\* The segments whose half-open interval [start, end) holds dt, and 0 for
\* the tail when dt is at or beyond the last boundary.
IntervalsHolding(p, dt) ==
  IF p.kind = "direction_change"
  THEN LET segs == p.segment_positions
       IN {i \in 1..(Len(segs) - 1) : segs[i].time <= dt /\ dt < segs[i + 1].time}
          \cup (IF dt >= segs[Len(segs)].time THEN {0} ELSE {})
  ELSE LET segs == p.segments
       IN {i \in 1..Len(segs) : segs[i].start_time <= dt /\ dt < segs[i].end_time}
          \cup (IF dt >= segs[Len(segs)].end_time THEN {0} ELSE {})

\* C4: with strictly positive durations every query time lies in exactly
\* one of the half-open segment intervals and the tail, and every lookup of
\* the query selects that one.
C4_IntervalsAndTailPartition ==
  ((PositiveDirectionChange \/ PositiveAcceleration) /\ Queried) =>
    LET holding == IntervalsHolding(pattern[1], result.dt)
    IN /\ Cardinality(holding) = 1
       /\ \A used \in {result.position_segment, result.velocity_segment,
                       result.heading_segment} :
            used # -1 => used \in holding

\* C5: for InstantDirectionChange, the heading returned at each of the 10
\* precomputed boundaries is the heading returned at the start of the
\* previous segment plus 90 degrees modulo 360, and every returned heading
\* lies in [0, 360).
C5_QuarterTurnAtBoundaries ==
  (PositiveDirectionChange /\ Queried) =>
    LET p == pattern[1]
        segs == p.segment_positions
    IN /\ result.track >= 0 /\ result.track < 360000
       /\ Len(segs) = DirectionChanges + 1
       /\ \A i \in 1..DirectionChanges :
            result.dt = segs[i + 1].time =>
              result.track =
                (DirectionChangeGetHeading(p, p.start_time + segs[i].time)
                   + 90000) % 360000

\* A query exactly at the last precomputed boundary of a pattern whose
\* initial heading is outside [0, 360).
C5_Witness ==
  /\ PositiveDirectionChange /\ Queried
  /\ result.dt = pattern[1].segment_positions[DirectionChanges + 1].time
  /\ Degrees(pattern[1].initial_direction_rad) = 725000
  /\ result.track = 185000

\* C6: for InstantAcceleration, a query inside a segment of speed 0 returns
\* the start position of that segment and the speed 0, and the following
\* segment starts from that same position.
C6_StationaryHold ==
  (PositiveAcceleration /\ Queried) =>
    LET segs == pattern[1].segments
    IN \A i \in 1..Len(segs) :
         (segs[i].speed_knots = 0 /\ segs[i].start_time <= result.dt
            /\ result.dt < segs[i].end_time) =>
           /\ result.lat = segs[i].start_lat
           /\ result.lon = segs[i].start_lon
           /\ result.gs = 0
           /\ i < Len(segs) =>
                /\ segs[i + 1].start_lat = segs[i].start_lat
                /\ segs[i + 1].start_lon = segs[i].start_lon

\* A query strictly inside a hold that follows a moving segment and is
\* followed by another segment.
C6_Witness ==
  /\ PositiveAcceleration /\ Queried
  /\ LET segs == pattern[1].segments
     IN /\ Len(segs) = 3
        /\ segs[1].speed_knots > 0
        /\ segs[2].speed_knots = 0
        /\ segs[3].speed_knots > 0
        /\ result.dt > segs[2].start_time
        /\ result.dt < segs[2].end_time
        /\ result.lat # pattern[1].start_lat

\* C9: no pattern object is produced from an empty or malformed profile or
\* from a non-positive change interval (every object has segments, all of a
\* positive duration), and no query of an object raises.
C9_DegenerateInputsFailAtConstruction ==
  /\ pattern # None =>
       LET p == pattern[1]
       IN /\ p.kind = "acceleration" =>
               /\ p.segments # <<>>
               /\ \A i \in 1..Len(p.segments) :
                    p.segments[i].end_time > p.segments[i].start_time
          /\ p.kind = "direction_change" =>
               \A i \in 1..(Len(p.segment_positions) - 1) :
                 p.segment_positions[i + 1].time > p.segment_positions[i].time
  /\ result.op = "query" => result.raised = "none"

(***************************************************************************)
(* The environment of the server process: the values the module reads from *)
(* os.environ at import, under the names of the module globals.            *)
(***************************************************************************)
Radar(id, port, lat, lon, alt) ==
  [id |-> id, has_port |-> TRUE, port |-> port, lat |-> lat, lon |-> lon,
   alt |-> alt]

Radar1 == Radar("radar1", 49158, -349000000, 1386000000, 100)
Radar2 == Radar("radar2", 49159, -350500000, 1388000000, 120)

BaseEnv ==
  [TX_LAT |-> -349810000, TX_LON |-> 1387081000, TX_ALT |-> 750,
   FC_MHZ |-> 20464, FREEZE_TIMESTAMP |-> FALSE, RADIUS_DEG |-> 500000,
   ANGULAR_SPEED |-> 1000000, ALT_BARO_FT |-> 5000,
   ICAO_HEX |-> <<"A", "E", "F", "1", "2", "3">>,
   RADARS |-> <<Radar1, Radar2>>, ENABLE_ANOMALIES |-> TRUE,
   NORMAL_AIRCRAFT_COUNT |-> 1, ANOMALOUS_AIRCRAFT_COUNT |-> 0,
   ANOMALY_ADSB_PROBABILITY |-> 10, SUPERSONIC_MACH_MIN |-> 200,
   SUPERSONIC_MACH_MAX |-> 500, SUPERSONIC_ALTITUDE_FT |-> 50000]

IcaoSeeds == {<<"A", "E", "F", "1", "2", "3">>, <<"F", "F", "F", "F", "F", "E">>}

(***************************************************************************)
(* The AircraftManager used on its own: it is constructed once from the    *)
(* environment, then a caller asks for either view at times of its choice. *)
(***************************************************************************)
ManagerEnvs ==
  {[BaseEnv EXCEPT !.ICAO_HEX = h, !.NORMAL_AIRCRAFT_COUNT = n,
      !.ANOMALOUS_AIRCRAFT_COUNT = a, !.ENABLE_ANOMALIES = en] :
     h \in IcaoSeeds, n \in 0..MaxNormal, a \in 0..MaxAnomalous,
     en \in BOOLEAN}

\* The manager is constructed at a clock that is not zero, so the start
\* time an anomalous pattern takes from the clock shows in its states.
InitManager ==
  /\ now = 4
  /\ env \in ManagerEnvs
  /\ pc = "manager"
  /\ pattern = None
  /\ result = BlankResult
  /\ radar_configs = <<>>
  /\ aircraft_list = <<>>
  /\ reply = BlankReply
  /\ random_state = <<>>
  /\ hash_secret = 0

\* AircraftManager(): __init__ and _initialize_aircraft
NewAircraftManager ==
  /\ pc = "manager"
  /\ \E draws \in [1..AnomalousAircraftCount(env) -> AnomalyDraws(env)] :
       /\ aircraft_list' = InitializeAircraft(env, draws, now)
       /\ random_state' = draws
  /\ pc' = "queries"
  /\ UNCHANGED <<now, pattern, result, env, radar_configs, reply>>
  /\ UNCHANGED hash_secret

\* aircraft_manager.get_all_aircraft_data(current_time, timestamp_for_json)
GetAllAircraftData ==
  /\ pc = "queries"
  /\ \E current_time \in (now - MaxBefore)..(now + MaxAhead) :
       LET r == AllAircraftData(aircraft_list, current_time, now)
       IN reply' = [BlankReply EXCEPT !.op = "get_all_aircraft_data",
                      !.raised = r.raised, !.current_time = current_time,
                      !.data = r.data]
  /\ UNCHANGED <<now, pattern, result, env, radar_configs, aircraft_list, pc>>
  /\ UNCHANGED <<random_state, hash_secret>>

\* A get_all_aircraft_for_radar that takes the first aircraft off the
\* population as it answers.
GetAllAircraftForRadarDraining ==
  /\ pc = "queries"
  /\ \E current_time \in (now - MaxBefore)..(now + MaxAhead) :
       LET r == AllAircraftForRadar(aircraft_list, current_time)
       IN reply' = [BlankReply EXCEPT !.op = "get_all_aircraft_for_radar",
                      !.raised = r.raised, !.current_time = current_time,
                      !.data = r.data]
  /\ aircraft_list' = IF aircraft_list = <<>> THEN <<>> ELSE Tail(aircraft_list)
  /\ UNCHANGED <<now, pattern, result, env, radar_configs, pc>>
  /\ UNCHANGED <<random_state, hash_secret>>

\* aircraft_manager.get_all_aircraft_for_radar(current_time)
GetAllAircraftForRadar ==
  /\ pc = "queries"
  /\ \E current_time \in (now - MaxBefore)..(now + MaxAhead) :
       LET r == AllAircraftForRadar(aircraft_list, current_time)
       IN reply' = [BlankReply EXCEPT !.op = "get_all_aircraft_for_radar",
                      !.raised = r.raised, !.current_time = current_time,
                      !.data = r.data]
  /\ UNCHANGED <<now, pattern, result, env, radar_configs, aircraft_list, pc>>
  /\ UNCHANGED <<random_state, hash_secret>>

NextManager ==
  \/ NewAircraftManager
  \/ GetAllAircraftData
  \/ GetAllAircraftForRadar

SpecManager == InitManager /\ [][NextManager]_vars

(***************************************************************************)
(* One Aircraft used on its own: a caller binds a pattern to reporting     *)
(* fields of its choice and asks for its data at times of its choice.      *)
(***************************************************************************)
SamplePatterns ==
  {CircularMotion(-349810003, 1387081007, 500000, 1000000),
   SupersonicLinearMotion(-349810003, 1387081007, 431, 45000, Some(5), 0),
   InstantDirectionChangeMotion(-349810003, 1387081007, 45037, 30000, 2,
                                Some(5), 0),
   InstantAccelerationMotion(-349810003, 1387081007, 30000,
     <<<<2, 40000>>, <<2, 0>>, <<3, 61250>>>>, Some(5), 0).obj}

InitAircraft ==
  /\ now \in ClockStarts
  /\ pattern \in {Some(p) : p \in SamplePatterns}
  /\ result = BlankResult
  /\ pc = "aircraft"
  /\ InitServerIdle

\* Aircraft(...)
NewAircraft ==
  /\ pc = "aircraft"
  /\ aircraft_list = <<>>
  /\ \E has_adsb \in BOOLEAN, adsb_accurate \in BOOLEAN,
        adsb_gs_override \in {None, Some(35055)},
        adsb_track_override \in {None, Some(12344)} :
       aircraft_list' =
         <<Aircraft(<<"A", "E", "F", "1", "2", "3">>, pattern[1], 31234,
                    FlightNumber("ANOM", 1, 2), TRUE, has_adsb, adsb_accurate,
                    adsb_gs_override, adsb_track_override)>>
  /\ UNCHANGED <<now, pattern, result, env, radar_configs, pc, reply>>
  /\ UNCHANGED <<random_state, hash_secret>>

\* aircraft.get_data(current_time, timestamp_for_json)
GetAircraftData ==
  /\ pc = "aircraft"
  /\ aircraft_list # <<>>
  /\ \E current_time \in (5 - MaxBefore)..(5 + MaxElapsed) :
       LET d == GetData(aircraft_list[1], current_time, now)
       IN reply' = [BlankReply EXCEPT !.op = "get_data", !.raised = d.raised,
                      !.current_time = current_time, !.data = d.data]
  /\ UNCHANGED <<now, pattern, result, env, radar_configs, aircraft_list, pc>>
  /\ UNCHANGED <<random_state, hash_secret>>

NextAircraft ==
  \/ NewAircraft
  \/ GetAircraftData

SpecAircraft == InitAircraft /\ [][NextAircraft]_vars

(***************************************************************************)
(* The server process: the import of the module builds radar_configs and   *)
(* the aircraft manager, then the Flask applications serve requests while  *)
(* the wall clock advances.  FREEZE_TIMESTAMP is off, so the "now" of a    *)
(* reply is the wall clock.                                                *)
(***************************************************************************)
RadarWithoutPort ==
  [id |-> "radar9", has_port |-> FALSE, port |-> 0, lat |-> -349500000,
   lon |-> 1387000000, alt |-> 90]

RadarTables ==
  {<<Radar1, Radar2>>, <<Radar2>>, <<>>, <<Radar1, RadarWithoutPort>>}

ServerEnvs ==
  {[BaseEnv EXCEPT !.RADARS = r, !.ANOMALOUS_AIRCRAFT_COUNT = a] :
     r \in RadarTables, a \in 0..1}

\* What request.environ holds under SERVER_PORT.
PortInputs ==
  {[kind |-> "absent", value |-> 0], [kind |-> "text", value |-> 0],
   [kind |-> "int", value |-> 49158], [kind |-> "int", value |-> 49159],
   [kind |-> "int", value |-> 5001]}

InitServer ==
  /\ now \in ClockStarts
  /\ env \in ServerEnvs
  /\ pc = "import"
  /\ pattern = None
  /\ result = BlankResult
  /\ radar_configs = <<>>
  /\ aircraft_list = <<>>
  /\ reply = BlankReply
  /\ random_state = <<>>
  /\ hash_secret \in HashSecrets

\* time.time() advances.
Tick ==
  /\ pc \in {"import", "manager", "queries"}
  /\ now < MaxClock
  /\ now' = now + 1
  /\ UNCHANGED <<pattern, result, env, radar_configs, aircraft_list, pc, reply>>
  /\ UNCHANGED <<random_state, hash_secret>>

\* The loop that fills radar_configs from RADARS: [raised, configs].  A
\* later radar of the same port replaces an earlier one.
RECURSIVE RadarConfigsLoop(_, _, _)
RadarConfigsLoop(radars, configs, fc_mhz) ==
  IF radars = <<>> THEN [raised |-> "none", configs |-> configs]
  ELSE LET radar == Head(radars)
           port == radar.port
           config == [id |-> radar.id, lat |-> radar.lat, lon |-> radar.lon,
                      alt |-> radar.alt, frequency |-> fc_mhz * 10000]
       IN IF ~radar.has_port
          THEN [raised |-> "EnvironmentError", configs |-> configs]
          ELSE RadarConfigsLoop(Tail(radars),
                 [q \in DOMAIN configs \cup {port} |->
                    IF q = port THEN config ELSE configs[q]],
                 fc_mhz)

\* The import of the module up to radar_configs; an exception ends the
\* process.
LoadRadarConfigs ==
  /\ pc = "import"
  /\ LET r == RadarConfigsLoop(env.RADARS, <<>>, env.FC_MHZ)
     IN /\ radar_configs' = r.configs
        /\ pc' = IF r.raised = "none" THEN "manager" ELSE "failed"
        /\ reply' = [BlankReply EXCEPT !.op = "import", !.raised = r.raised]
  /\ UNCHANGED <<now, pattern, result, env, aircraft_list>>
  /\ UNCHANGED <<random_state, hash_secret>>

\* port = request.environ.get("SERVER_PORT", 5001); int(port), 5001 when
\* that raises.
ServerPort(input) == IF input.kind = "int" THEN input.value ELSE 5001

\* radar_configs.get(port)
RadarConfigsGet(port) ==
  IF port \in DOMAIN radar_configs THEN Some(radar_configs[port]) ELSE None

\* The radar lookup of radar_detection: [raised, radar]
DetectionLookup(port) ==
  LET radar_config == RadarConfigsGet(port)
  IN IF radar_config # None THEN [raised |-> "none", radar |-> radar_config]
     ELSE IF 49158 \in DOMAIN radar_configs
       THEN [raised |-> "none", radar |-> Some(radar_configs[49158])]
     ELSE [raised |-> "KeyError", radar |-> None]

\* radar_configs.get(port, radar_configs[49158]): the default is evaluated
\* before get is called.
EagerLookup(port) ==
  IF 49158 \notin DOMAIN radar_configs
  THEN [raised |-> "KeyError", radar |-> None]
  ELSE IF port \in DOMAIN radar_configs
    THEN [raised |-> "none", radar |-> Some(radar_configs[port])]
  ELSE [raised |-> "none", radar |-> Some(radar_configs[49158])]

\* detection["bistatic_range_m"] / 299792458: mm to nanoseconds.
DelaySeconds(range) == Scale(range, 1000, 299792)

\* detection["bistatic_range_m"] / 1000.0: mm to 1e-5 km.
DelayKm(range) == range \div 10

\* The delay, doppler and snr arrays a detection handler fills from the
\* detections; the handler of the main application gives the delay in
\* seconds, the one of a radar application in kilometres.
DetectionArrays(detections, in_km) ==
  [delay |-> [k \in 1..Len(detections) |->
                IF in_km THEN DelayKm(detections[k].bistatic_range_m)
                ELSE DelaySeconds(detections[k].bistatic_range_m)],
   doppler |-> [k \in 1..Len(detections) |-> detections[k].doppler_hz],
   snr |-> [k \in 1..Len(detections) |-> detections[k].snr_db]]

\* The detections a handler synthesises from the true states; their
\* detection_id does not reach the reply, so any draw of them stands for
\* all.
HandlerDetections(aircraft_data, radar_config) ==
  GenerateSyntheticDetections(env, aircraft_data, radar_config,
    CHOOSE uuids \in UuidDraws(Len(aircraft_data)) : TRUE, now, hash_secret)

\* The reply of a detection handler: data holds the arrays of the reply.
DetectionReply(op, port, lookup, in_km) ==
  LET r == AllAircraftForRadar(aircraft_list, now)
  IN IF lookup.raised # "none"
     THEN [BlankReply EXCEPT !.op = op, !.port = port,
                             !.raised = lookup.raised]
     ELSE [BlankReply EXCEPT !.op = op, !.port = port, !.raised = r.raised,
             !.radar = lookup.radar, !.current_time = now,
             !.data = DetectionArrays(HandlerDetections(r.data, lookup.radar[1]),
                                      in_km),
             !.timestamp = now]

ConfigReply(op, port, lookup) ==
  IF lookup.raised # "none"
  THEN [BlankReply EXCEPT !.op = op, !.port = port, !.raised = lookup.raised]
  ELSE [BlankReply EXCEPT !.op = op, !.port = port, !.radar = lookup.radar,
                          !.timestamp = now]

\* GET /data/aircraft.json
ServeSyntheticAdsb ==
  /\ pc = "queries"
  /\ LET r == AllAircraftData(aircraft_list, now, now)
     IN reply' = [BlankReply EXCEPT !.op = "serve_synthetic_adsb",
                    !.raised = r.raised, !.current_time = now,
                    !.data = r.data, !.timestamp = now]
  /\ UNCHANGED <<now, pattern, result, env, radar_configs, aircraft_list, pc>>
  /\ UNCHANGED <<random_state, hash_secret>>

\* GET /api/detection of the main application
RadarDetection ==
  /\ pc = "queries"
  /\ \E input \in PortInputs :
       LET port == ServerPort(input)
       IN reply' = DetectionReply("radar_detection", port, DetectionLookup(port), FALSE)
  /\ UNCHANGED <<now, pattern, result, env, radar_configs, aircraft_list, pc>>
  /\ UNCHANGED <<random_state, hash_secret>>

\* GET /api/config of the main application
RadarConfig ==
  /\ pc = "queries"
  /\ \E input \in PortInputs :
       LET port == ServerPort(input)
       IN reply' = ConfigReply("radar_config", port, EagerLookup(port))
  /\ UNCHANGED <<now, pattern, result, env, radar_configs, aircraft_list, pc>>
  /\ UNCHANGED <<random_state, hash_secret>>

\* GET /api/detection of the application create_radar_app(port) made; main
\* makes one for every port of radar_configs.
RadarAppDetection ==
  /\ pc = "queries"
  /\ \E port \in DOMAIN radar_configs :
       reply' = DetectionReply("radar_app_detection", port, EagerLookup(port),
                               TRUE)
  /\ UNCHANGED <<now, pattern, result, env, radar_configs, aircraft_list, pc>>
  /\ UNCHANGED <<random_state, hash_secret>>

\* GET /api/config of the application create_radar_app(port) made
RadarAppConfig ==
  /\ pc = "queries"
  /\ \E port \in DOMAIN radar_configs :
       reply' = ConfigReply("radar_app_config", port, EagerLookup(port))
  /\ UNCHANGED <<now, pattern, result, env, radar_configs, aircraft_list, pc>>
  /\ UNCHANGED <<random_state, hash_secret>>

NextServer ==
  \/ Tick
  \/ LoadRadarConfigs
  \/ NewAircraftManager
  \/ ServeSyntheticAdsb
  \/ RadarDetection
  \/ RadarConfig
  \/ RadarAppDetection
  \/ RadarAppConfig

SpecServer == InitServer /\ [][NextServer]_vars

\* C10: a detection or config request never fails on the radar lookup: it
\* uses the radar configured for the requested port when there is one, and
\* the radar of port 49158 otherwise.
C10_RadarLookupNeverFails ==
  reply.op \in {"radar_detection", "radar_config", "radar_app_detection",
                "radar_app_config"} =>
    /\ reply.raised = "none"
    /\ reply.port \in DOMAIN radar_configs =>
         reply.radar = Some(radar_configs[reply.port])
    /\ reply.port \notin DOMAIN radar_configs =>
         /\ 49158 \in DOMAIN radar_configs
         /\ reply.radar = Some(radar_configs[49158])

(***************************************************************************)
(* Properties of Aircraft and AircraftManager.                             *)
(***************************************************************************)
HexesOf(data) == {data[k].hex : k \in 1..Len(data)}

\* C1: an aircraft with has_adsb = false has no entry in the reported feed
\* and has an entry, with its hex, in the true-state list; an aircraft with
\* has_adsb = true has an entry in both.
C1_TransponderFiltering ==
  /\ reply.op = "get_all_aircraft_data" =>
       /\ reply.raised = "none"
       /\ \A i \in 1..Len(aircraft_list) :
            (aircraft_list[i].icao_hex \in HexesOf(reply.data))
              <=> aircraft_list[i].has_adsb
  /\ reply.op = "get_all_aircraft_for_radar" =>
       /\ reply.raised = "none"
       /\ \A i \in 1..Len(aircraft_list) :
            aircraft_list[i].icao_hex \in HexesOf(reply.data)

\* The reported feed of a population that holds an aircraft without a
\* transponder and an anomalous aircraft with one.
C1_Witness ==
  /\ reply.op = "get_all_aircraft_data"
  /\ \E i, j \in 1..Len(aircraft_list) :
       /\ ~aircraft_list[i].has_adsb
       /\ aircraft_list[j].has_adsb /\ aircraft_list[j].is_anomalous
       /\ aircraft_list[i].icao_hex \notin HexesOf(reply.data)
       /\ aircraft_list[j].icao_hex \in HexesOf(reply.data)

\* The speed and the track an aircraft reports when its true ones are gs
\* and track.
ReportedGs(aircraft, gs) ==
  IF ~aircraft.adsb_accurate /\ aircraft.adsb_gs_override # None
  THEN aircraft.adsb_gs_override[1] ELSE gs

ReportedTrack(aircraft, track) ==
  IF ~aircraft.adsb_accurate /\ aircraft.adsb_track_override # None
  THEN aircraft.adsb_track_override[1] ELSE track

GotData ==
  /\ reply.op = "get_data"
  /\ aircraft_list # <<>>
  /\ aircraft_list[1].has_adsb

\* The reply of get_data carries the position (lat, lon), the altitude of
\* the aircraft, the speed gs and the track.
Carries(a, lat, lon, gs, track) ==
  /\ reply.data # None
  /\ reply.data[1].lat = lat
  /\ reply.data[1].lon = lon
  /\ reply.data[1].alt_baro = a.altitude_ft
  /\ reply.data[1].gs = gs
  /\ reply.data[1].track = track

TrueOrOverride(a, st) ==
  Carries(a, st.lat, st.lon, ReportedGs(a, st.gs), ReportedTrack(a, st.track))

RoundedTrueOrOverride(a, st) ==
  Carries(a, Round(st.lat, 10), Round(st.lon, 10),
          Round(ReportedGs(a, st.gs), 10), Round(ReportedTrack(a, st.track), 10))

C8_UniqueSixDigitHex ==
  \A i \in 1..Len(aircraft_list) :
    /\ Len(aircraft_list[i].icao_hex) = 6
    /\ \A k \in 1..Len(aircraft_list[i].icao_hex) :
         \E d \in 1..16 : HexDigits[d] = aircraft_list[i].icao_hex[k]
    /\ \A j \in 1..Len(aircraft_list) :
         i # j => aircraft_list[i].icao_hex # aircraft_list[j].icao_hex

(***************************************************************************)
(* Two managers from one seed: a caller seeds the random module, builds an *)
(* AircraftManager and queries it, then seeds the module with the same     *)
(* seed and builds the manager again at a later wall-clock time.           *)
(***************************************************************************)
ReplayEnvs ==
  {[BaseEnv EXCEPT !.NORMAL_AIRCRAFT_COUNT = n,
      !.ANOMALOUS_AIRCRAFT_COUNT = a] :
     n \in 0..1, a \in 0..MaxAnomalous}

InitReplay ==
  /\ now \in ClockStarts
  /\ env \in ReplayEnvs
  /\ pc = "manager"
  /\ pattern = None
  /\ result = BlankResult
  /\ radar_configs = <<>>
  /\ aircraft_list = <<>>
  /\ reply = BlankReply
  /\ random_state = <<>>
  /\ hash_secret = 0

\* random.seed(s); AircraftManager(), with the seed of the first manager:
\* the random module delivers the draws of random_state again.
NewAircraftManagerSameSeed ==
  /\ pc = "queries"
  /\ \E later \in 0..MaxLater :
       /\ now + later <= MaxClock
       /\ now' = now + later
       /\ aircraft_list' = InitializeAircraft(env, random_state, now + later)
  /\ reply' = BlankReply
  /\ UNCHANGED <<pattern, result, env, radar_configs, pc>>
  /\ UNCHANGED <<random_state, hash_secret>>

NextReplay ==
  \/ NewAircraftManager
  \/ NewAircraftManagerSameSeed
  \/ GetAllAircraftData
  \/ GetAllAircraftForRadar

SpecReplay == InitReplay /\ [][NextReplay]_vars

\* The query times the answers of two managers are compared at.
ReplayTimes == 0..(MaxClock + MaxAhead)

SameAnswers(first, second, t) ==
  /\ AllAircraftForRadar(first, t) = AllAircraftForRadar(second, t)
  /\ AllAircraftData(first, t, t) = AllAircraftData(second, t, t)

\* C11: two populations built from the same configuration and the same
\* random seed, at any two wall-clock instants, return identical true
\* states and identical reported feeds for every query time t.
C11_SameSeedSameAnswers ==
  [][(pc = "queries" /\ pc' = "queries" /\ env' = env
        /\ random_state' = random_state)
       => \A t \in ReplayTimes : SameAnswers(aircraft_list, aircraft_list', t)]_vars

(***************************************************************************)
(* The engine behind the handlers: the import builds radar_configs and the *)
(* manager, then callers ask the manager for its views, ask a pattern of   *)
(* the population for its state and synthesise the detections of a radar,  *)
(* at times of their choice.  Over several runs, the process is stopped    *)
(* and started again in the same environment.                              *)
(***************************************************************************)
EngineEnvs ==
  {[BaseEnv EXCEPT !.NORMAL_AIRCRAFT_COUNT = n,
      !.ANOMALOUS_AIRCRAFT_COUNT = a] :
     n \in 0..1, a \in 0..MaxTracked}

InitEngine ==
  /\ now = 4
  /\ env \in EngineEnvs
  /\ pc = "import"
  /\ pattern = None
  /\ result = BlankResult
  /\ radar_configs = <<>>
  /\ aircraft_list = <<>>
  /\ reply = BlankReply
  /\ random_state = <<>>
  /\ hash_secret = 0

EngineTimes == (now - MaxBefore)..(now + MaxAhead)

\* Detections synthesised from the reported feed in place of the true
\* states.
GenerateDetectionsFromFeed ==
  /\ pc = "queries"
  /\ \E current_time \in EngineTimes, port \in DOMAIN radar_configs :
       LET r == AllAircraftData(aircraft_list, current_time, now)
       IN \E uuids \in UuidDraws(Len(r.data)) :
            reply' = [BlankReply EXCEPT
                        !.op = "generate_synthetic_detections",
                        !.raised = r.raised, !.current_time = current_time,
                        !.port = port, !.radar = Some(radar_configs[port]),
                        !.timestamp = now,
                        !.data = GenerateSyntheticDetections(env, r.data,
                                   radar_configs[port], uuids, now,
                                   hash_secret)]
  /\ UNCHANGED <<now, pattern, result, env, radar_configs, aircraft_list, pc>>
  /\ UNCHANGED <<random_state, hash_secret>>

\* generate_synthetic_detections(
\*   aircraft_manager.get_all_aircraft_for_radar(current_time), radar_config)
GenerateDetections ==
  /\ pc = "queries"
  /\ \E current_time \in EngineTimes, port \in DOMAIN radar_configs :
       LET r == AllAircraftForRadar(aircraft_list, current_time)
       IN \E uuids \in UuidDraws(Len(r.data)) :
            reply' = [BlankReply EXCEPT
                        !.op = "generate_synthetic_detections",
                        !.raised = r.raised, !.current_time = current_time,
                        !.port = port, !.radar = Some(radar_configs[port]),
                        !.timestamp = now,
                        !.data = GenerateSyntheticDetections(env, r.data,
                                   radar_configs[port], uuids, now,
                                   hash_secret)]
  /\ UNCHANGED <<now, pattern, result, env, radar_configs, aircraft_list, pc>>
  /\ UNCHANGED <<random_state, hash_secret>>

\* get_position, get_velocity and get_heading of the pattern of one
\* aircraft of the population.
LookupPattern ==
  /\ pc = "queries"
  /\ \E i \in 1..Len(aircraft_list), current_time \in EngineTimes :
       LET st == PatternState(aircraft_list[i].motion_pattern, current_time)
       IN reply' = [BlankReply EXCEPT !.op = "lookup", !.raised = st.raised,
                      !.current_time = current_time, !.port = i,
                      !.data = <<st>>]
  /\ UNCHANGED <<now, pattern, result, env, radar_configs, aircraft_list, pc>>
  /\ UNCHANGED <<random_state, hash_secret>>

\* The process ends and the program is started again in the same
\* environment, at the same reading of the clock and with the random module
\* delivering the same draws; the caller keeps the last reply it got.
Restart ==
  /\ pc = "queries"
  /\ hash_secret' \in HashSecrets
  /\ radar_configs' = RadarConfigsLoop(env.RADARS, <<>>, env.FC_MHZ).configs
  /\ aircraft_list' = InitializeAircraft(env, random_state, now)
  /\ UNCHANGED <<now, pattern, result, env, pc, reply, random_state>>

NextEngine ==
  \/ LoadRadarConfigs
  \/ NewAircraftManager
  \/ GetAllAircraftData
  \/ GetAllAircraftForRadar
  \/ GenerateDetections
  \/ LookupPattern

SpecEngine == InitEngine /\ [][NextEngine]_vars

\* The engine over several runs of the program.
NextRuns ==
  \/ NextEngine
  \/ Restart

SpecRuns == InitEngine /\ [][NextRuns]_vars

(***************************************************************************)
(* Properties of the detections.                                           *)
(***************************************************************************)
Synthesised == reply.op = "generate_synthetic_detections" /\ reply.raised = "none"

\* The true states the detections of the reply were synthesised from.
StatesOfReply == AllAircraftForRadar(aircraft_list, reply.current_time).data

\* distance(transmitter, aircraft) + distance(aircraft, receiver), with the
\* altitude of the aircraft converted from feet.
LegsSum(state, radar) ==
  Distance(env.TX_LAT, env.TX_LON, Metres(env.TX_ALT), state.lat, state.lon,
           FeetToMetres(state.alt_geom))
    + Distance(state.lat, state.lon, FeetToMetres(state.alt_geom), radar.lat,
               radar.lon, Metres(radar.alt))

\* C12 as stated: the bistatic_range_m of every detection equals
\* distance(transmitter, aircraft) + distance(aircraft, receiver), both legs
\* from the same distance function, the aircraft altitude converted from
\* feet to metres and the transmitter and receiver altitudes in metres.
C12_RangeIsSumOfLegs ==
  Synthesised =>
    \A k \in 1..Len(StatesOfReply) :
      /\ k \in DOMAIN reply.data
      /\ reply.data[k].bistatic_range_m = LegsSum(StatesOfReply[k], reply.radar[1])

\* C12, amended: the bistatic_range_m of every detection equals that sum of
\* the two legs rounded to 2 decimal places (centimetres).
C12_RangeIsRoundedSumOfLegs ==
  Synthesised =>
    \A k \in 1..Len(StatesOfReply) :
      /\ k \in DOMAIN reply.data
      /\ reply.data[k].bistatic_range_m
           = Round(LegsSum(StatesOfReply[k], reply.radar[1]), 10)

\* Detections of a normal and an anomalous aircraft whose ranges are not
\* whole centimetres before rounding.
C12_Witness ==
  /\ Synthesised
  /\ Len(reply.data) = 2
  /\ \A k \in 1..2 :
       /\ reply.data[k].bistatic_range_m > 0
       /\ reply.data[k].bistatic_range_m # LegsSum(StatesOfReply[k], reply.radar[1])
       /\ FeetToMetres(StatesOfReply[k].alt_geom) # Metres(StatesOfReply[k].alt_geom)

\* The detections of two replies agree on the snr_db of every icao_hex both
\* hold.
SameSnrPerHex(first, second) ==
  \A i \in DOMAIN first, j \in DOMAIN second :
    first[i].icao_hex = second[j].icao_hex => first[i].snr_db = second[j].snr_db

\* C13: the snr_db of a detection is a function of the icao_hex alone: two
\* detections of the same icao_hex, for any radar, any query time and any
\* run of the program, carry the same snr_db, and every snr_db lies in the
\* band 15 to 24 dB inclusive.
C13_SnrFunctionOfHexInBand ==
  [][(reply.op = "generate_synthetic_detections"
        /\ reply'.op = "generate_synthetic_detections")
       => /\ SameSnrPerHex(reply.data, reply'.data)
          /\ \A j \in DOMAIN reply'.data :
               reply'.data[j].snr_db \in 15..24]_vars

(***************************************************************************)
(* Startup under random-generation parameters in and out of range: the     *)
(* import, the construction of the manager and a first request for the     *)
(* reported feed.                                                          *)
(***************************************************************************)
ProbabilityChoices == {-20, 10, 150}
MachRangeChoices == {<<200, 500>>, <<500, 200>>}

StartupEnvs ==
  {[BaseEnv EXCEPT !.ANOMALOUS_AIRCRAFT_COUNT = a,
      !.ANOMALY_ADSB_PROBABILITY = p, !.SUPERSONIC_MACH_MIN = m[1],
      !.SUPERSONIC_MACH_MAX = m[2]] :
     a \in 0..MaxTracked, p \in ProbabilityChoices, m \in MachRangeChoices}

InitStartup ==
  /\ now \in ClockStarts
  /\ env \in StartupEnvs
  /\ pc = "import"
  /\ pattern = None
  /\ result = BlankResult
  /\ radar_configs = <<>>
  /\ aircraft_list = <<>>
  /\ reply = BlankReply
  /\ random_state = <<>>
  /\ hash_secret = 0

NextStartup ==
  \/ LoadRadarConfigs
  \/ NewAircraftManager
  \/ GetAllAircraftData

SpecStartup == InitStartup /\ [][NextStartup]_vars

\* A random-generation parameter is out of range: the probability that an
\* anomalous aircraft has a transponder is outside [0, 1], or the Mach
\* minimum is above the Mach maximum.
OutOfRange(e) ==
  \/ e.ANOMALY_ADSB_PROBABILITY < 0
  \/ e.ANOMALY_ADSB_PROBABILITY > 100
  \/ e.SUPERSONIC_MACH_MIN > e.SUPERSONIC_MACH_MAX

\* C14: under an out-of-range random-generation parameter the startup ends
\* in a configuration error before any aircraft is generated: no population
\* is ever built from such parameters.
C14_OutOfRangeCaughtAtStartup ==
  OutOfRange(env) => (pc # "queries" /\ aircraft_list = <<>>)

(***************************************************************************)
(* Properties of the engine as a whole.                                    *)
(***************************************************************************)
\* C15: after construction, every query (reported feed, true states,
\* detection synthesis, position / speed / heading lookup), in any order
\* and interleaving, leaves the population unchanged: its size, its order,
\* every field of every aircraft and the precomputed segment list of every
\* piecewise pattern.
C15_QueriesLeavePopulationUnchanged ==
  [][(pc = "queries" /\ reply' # reply)
       => /\ Len(aircraft_list') = Len(aircraft_list)
          /\ \A i \in 1..Len(aircraft_list) :
               /\ aircraft_list'[i] = aircraft_list[i]
               /\ aircraft_list'[i].motion_pattern.segments
                    = aircraft_list[i].motion_pattern.segments
               /\ aircraft_list'[i].motion_pattern.segment_positions
                    = aircraft_list[i].motion_pattern.segment_positions]_vars

\* A lookup has answered on a population of two aircraft, the second with a
\* piecewise pattern that holds its precomputed segments.
C15_Witness ==
  /\ pc = "queries"
  /\ reply.op = "lookup"
  /\ reply.raised = "none"
  /\ Len(aircraft_list) = 2
  /\ reply.port = 2
  /\ aircraft_list[2].motion_pattern.kind \in {"direction_change", "acceleration"}
  /\ Len(aircraft_list[2].motion_pattern.segments)
       + Len(aircraft_list[2].motion_pattern.segment_positions) > 0

\* C16: a call of generate_synthetic_detections returns exactly one
\* detection for each true state it is given, in the order given, each with
\* the icao_hex of its state and the id and frequency of the radar (none
\* for an empty list); fed the true states of the manager it gives one
\* detection for every aircraft of the population, with or without a
\* transponder.
C16_OneDetectionPerTrueState ==
  Synthesised =>
    /\ Len(reply.data) = Len(StatesOfReply)
    /\ Len(reply.data) = Len(aircraft_list)
    /\ \A k \in 1..Len(reply.data) :
         /\ reply.data[k].icao_hex = StatesOfReply[k].hex
         /\ reply.data[k].icao_hex = aircraft_list[k].icao_hex
         /\ reply.data[k].radar_id = reply.radar[1].id
         /\ reply.data[k].frequency_hz = reply.radar[1].frequency

\* The detections of a population whose second aircraft has no
\* transponder, for the radar of port 49159.
C16_Witness ==
  /\ Synthesised
  /\ Len(aircraft_list) = 2
  /\ ~aircraft_list[2].has_adsb
  /\ Len(reply.data) = 2
  /\ reply.data[2].icao_hex = aircraft_list[2].icao_hex
  /\ reply.data[2].radar_id = "radar2"

====
